---- MODULE Spec2Model ----
(***************************************************************************)
(* Model of the gRPC transport data builder of goa (grpc/codegen           *)
(* service_data.go): the memoizing ServicesData.Get, analyze, the message  *)
(* collector collectMessages, the request/response conversion builders     *)
(* and extractMetadata.                                                    *)
(***************************************************************************)
EXTENDS Integers, Sequences, FiniteSets, TLC

VARIABLES
    root,       \* expr.Root: the design (services and user types) read by Get
    d,          \* the ServicesData map: service name -> *ServiceData
    ret,        \* the last call of Get: its argument, result and what it did
    calls,      \* number of Get calls and design changes made so far
    att0,       \* collectMessages: the attribute of the outermost call
    defs,       \* collectMessages: the attribute of every user type
    seen0,      \* collectMessages: the seen map when the outermost call starts
    work,       \* collectMessages: attributes still to visit, next one first
    data,       \* collectMessages: the descriptors appended so far
    seen,       \* collectMessages: the seen map
    validations, \* collectMessages: sd.Validations
    steps,      \* collectMessages: number of calls entered so far
    log,        \* the ServiceData analyze has returned so far, oldest first
    rpc         \* the call of a generated server method that is under way

vars == <<root, d, ret, calls, att0, defs, seen0, work, data, seen, validations, steps, log, rpc>>

(***************************************************************************)
(* Bounds of the model.                                                    *)
(***************************************************************************)
MaxFields == 2      \* fields of an object
MaxCalls == 4       \* Get calls and design changes in one run
MaxSteps == 24      \* collectMessages calls in one traversal

(***************************************************************************)
(* Data types (expr.DataType).  Every type is a record with the same       *)
(* fields: kind, name (user types and primitives) and fields, the list of  *)
(* component types (object fields in declaration order; the element type   *)
(* of an array; the key type then the element type of a map).              *)
(***************************************************************************)
UserTypeNames == {"A", "B"}

Primitive == [kind |-> "primitive", name |-> "String", fields |-> <<>>]
Empty == [kind |-> "empty", name |-> "Empty", fields |-> <<>>]
UserType(n) == [kind |-> "user", name |-> n, fields |-> <<>>]
Object(fs) == [kind |-> "object", name |-> "", fields |-> fs]
Array(e) == [kind |-> "array", name |-> "", fields |-> <<e>>]
Map(k, e) == [kind |-> "map", name |-> "", fields |-> <<k, e>>]

SeqsUpTo(S, n) == UNION {[1..k -> S] : k \in 0..n}

Leaves == {Primitive} \cup {UserType(n) : n \in UserTypeNames}

\* The types of nesting depth at most one over the leaves.
TypeExprs ==
    Leaves
    \cup {Array(e) : e \in Leaves}
    \cup {Map(k, e) : k \in Leaves, e \in Leaves}
    \cup {Object(fs) : fs \in SeqsUpTo(Leaves, MaxFields)}

TypeEnvs == [UserTypeNames -> TypeExprs]

Range(s) == {s[i] : i \in DOMAIN s}

Names(s) == {s[i].Name : i \in DOMAIN s}
Occurrences(s, n) == Cardinality({i \in DOMAIN s : s[i].Name = n})

RECURSIVE Reverse(_)
Reverse(s) == IF s = <<>> THEN <<>> ELSE Append(Reverse(Tail(s)), Head(s))


(***************************************************************************)
(* collectMessages.  visit is the body of one call: what the call appends  *)
(* to data and to sd.Validations, what it adds to seen, and the attributes *)
(* it recurses into, in the order of the recursive calls.                  *)
(***************************************************************************)
\* RecursiveValidationCode(an, "message") != "" for the user types the design
\* puts constraints on.
UserTypeData(dt) == [Name |-> dt.name]
ValidationData(dt) == [SrcName |-> dt.name, ArgName |-> "message"]

NoVisit == [data |-> <<>>, validations |-> <<>>, seen |-> {}, next |-> <<>>]

visitNoMark(at, types, validated, seenNow) ==
    CASE at.kind = "user" ->
            IF at.name \in seenNow
            THEN NoVisit
            ELSE [data |-> <<UserTypeData(at)>>,
                  validations |-> IF at.name \in validated
                                  THEN <<ValidationData(at)>> ELSE <<>>,
                  seen |-> {},
                  next |-> <<types[at.name]>>]
      [] at.kind = "object" -> [NoVisit EXCEPT !.next = at.fields]
      [] at.kind = "array" -> [NoVisit EXCEPT !.next = <<at.fields[1]>>]
      [] at.kind = "map" -> [NoVisit EXCEPT !.next = <<at.fields[1], at.fields[2]>>]
      [] OTHER -> NoVisit

visitElemFirst(at, types, validated, seenNow) ==
    CASE at.kind = "user" ->
            IF at.name \in seenNow
            THEN NoVisit
            ELSE [data |-> <<UserTypeData(at)>>,
                  validations |-> IF at.name \in validated
                                  THEN <<ValidationData(at)>> ELSE <<>>,
                  seen |-> {at.name},
                  next |-> <<types[at.name]>>]
      [] at.kind = "object" -> [NoVisit EXCEPT !.next = Reverse(at.fields)]
      [] at.kind = "array" -> [NoVisit EXCEPT !.next = <<at.fields[1]>>]
      [] at.kind = "map" -> [NoVisit EXCEPT !.next = <<at.fields[2], at.fields[1]>>]
      [] OTHER -> NoVisit

visit(at, types, validated, seenNow) ==
    CASE at.kind = "user" ->
            IF at.name \in seenNow
            THEN NoVisit
            ELSE [data |-> <<UserTypeData(at)>>,
                  validations |-> IF at.name \in validated
                                  THEN <<ValidationData(at)>> ELSE <<>>,
                  seen |-> {at.name},
                  next |-> <<types[at.name]>>]
      [] at.kind = "object" -> [NoVisit EXCEPT !.next = at.fields]
      [] at.kind = "array" -> [NoVisit EXCEPT !.next = <<at.fields[1]>>]
      [] at.kind = "map" -> [NoVisit EXCEPT !.next = <<at.fields[1], at.fields[2]>>]
      [] OTHER -> NoVisit

\* The whole call as a function: the recursion of collectMessages over the
\* attributes visit names, threading seen and sd.Validations through the
\* calls in order.  st is [data, seen, validations].
RECURSIVE collectMessages(_, _, _, _)
RECURSIVE collectEach(_, _, _, _)
collectMessages(at, types, validated, st) ==
    LET v == visit(at, types, validated, st.seen)
    IN  collectEach(v.next, types, validated,
                    [data |-> st.data \o v.data,
                     seen |-> st.seen \cup v.seen,
                     validations |-> st.validations \o v.validations])

collectEach(ats, types, validated, st) ==
    IF ats = <<>> THEN st
    ELSE collectEach(Tail(ats), types, validated,
                     collectMessages(Head(ats), types, validated, st))

(***************************************************************************)
(* The design read by analyze (package expr) and the helpers of other      *)
(* packages it calls.                                                      *)
(***************************************************************************)
Nil == [kind |-> "nil"]

\* A generated identifier: the name it is made from, whether Goify was asked
\* for an exported name, and the number NameScope.Unique appended (0: none).
Ident(id) == [id |-> id, upper |-> FALSE, dup |-> 0]
Goify(name, firstUpper) == [id |-> name, upper |-> firstUpper, dup |-> 0]
NoIdent == Ident("")

\* NameScope.Unique: the name itself the first time, then the name with the
\* first free number appended.  scope is the set of names handed out.
Unique(scope, id) ==
    IF id \notin scope THEN id
    ELSE LET free(k) == [id EXCEPT !.dup = k] \notin scope
         IN  [id EXCEPT !.dup =
                 CHOOSE k \in 2..(Cardinality(scope) + 2) :
                     free(k) /\ \A j \in 2..(k - 1) : ~free(j)]

\* expr.AsObject, expr.IsObject, expr.IsPrimitive: the type itself or, for a
\* user type, the type of its attribute.
Underlying(dt, types) ==
    IF dt.kind = "user" /\ dt.name \in DOMAIN types THEN types[dt.name] ELSE dt
AsObject(dt, types) ==
    IF Underlying(dt, types).kind = "object" THEN Underlying(dt, types) ELSE Nil
IsObject(dt, types) == AsObject(dt, types) # Nil
IsPrimitive(dt, types) == Underlying(dt, types).kind = "primitive"

\* MethodExpr.IsStreaming, MethodExpr.IsPayloadStreaming.
IsStreaming(e) == e.Stream # "NoStream"
IsPayloadStreaming(e) == e.Stream \in {"ClientStream", "Bidirectional"}

\* protoBufify(e.Name(), true) + suffix: the name of the wire message of an
\* endpoint.
MessageName(en, suffix) ==
    CASE en = "M1" /\ suffix = "Request" -> "M1Request"
      [] en = "M1" /\ suffix = "StreamingRequest" -> "M1StreamingRequest"
      [] en = "M1" /\ suffix = "Response" -> "M1Response"
      [] en = "M2" /\ suffix = "Request" -> "M2Request"
      [] en = "M2" /\ suffix = "StreamingRequest" -> "M2StreamingRequest"
      [] en = "M2" /\ suffix = "Response" -> "M2Response"

\* makeProtoBufMessage: the attribute becomes the user type tname, a message
\* with the fields of an object, no field for the empty type, and one
\* wrapping field for any other type.  The result is the definition of tname.
makeProtoBufMessage(att) ==
    CASE att.kind = "empty" -> Object(<<>>)
      [] att.kind = "object" -> att
      [] OTHER -> Object(<<att>>)

\* An AttributeAnalyzer: the attribute it is bound to, its package and
\* whether the attribute is required.
Analyzer(att, pkg, required) == [att |-> att, pkg |-> pkg, required |-> required]
Dup(an, att, required) == [an EXCEPT !.att = att, !.required = required]
IsPointer(an) == ~an.required
TypeLabel(dt) == IF dt.kind \in {"user", "primitive", "empty"} THEN dt.name ELSE dt.kind
AnalyzerName(an, qualified) ==
    [pkg |-> IF qualified /\ an.att.kind # "primitive" THEN an.pkg ELSE "",
     name |-> TypeLabel(an.att)]
protoBufMessageName(att) == att.name

pbPkgName == "pb"
svcPkgName == "svc"
viewsPkgName == "svcviews"

\* The projected type of a result type with views: the user type of the same
\* attribute in the views package.
ViewName(n) == CASE n = "B" -> "BView" [] OTHER -> n
Projected(dt) == [dt EXCEPT !.name = ViewName(dt.name)]

\* resultAnalyzer: the analyzer of the projected type when the method has a
\* viewed result, of the method result otherwise.
resultAnalyzer(e) ==
    IF e.ViewedResult
    THEN Analyzer(Projected(e.Result), viewsPkgName, TRUE)
    ELSE Analyzer(e.Result, svcPkgName, TRUE)

\* The gRPC status codes (package codes) by number, and
\* statusCodeToGRPCConst, which names the constant of a status code.
StatusCodes ==
    <<"codes.Canceled", "codes.Unknown", "codes.InvalidArgument",
      "codes.DeadlineExceeded", "codes.NotFound", "codes.AlreadyExists",
      "codes.PermissionDenied", "codes.ResourceExhausted",
      "codes.FailedPrecondition", "codes.Aborted", "codes.OutOfRange",
      "codes.Unimplemented", "codes.Internal", "codes.Unavailable",
      "codes.DataLoss", "codes.Unauthenticated">>
statusCodeToGRPCConst(code) ==
    IF code = 0 THEN "codes.OK"
    ELSE IF code \in DOMAIN StatusCodes THEN StatusCodes[code]
    ELSE "codes.Unknown"

(***************************************************************************)
(* needInit, extractMetadata, buildConvertData and its callers.            *)
(***************************************************************************)
needInitEmptyOnly(dt, types) ==
    dt # Empty

needInit(dt, types) ==
    IF dt = Empty THEN FALSE
    ELSE IF AsObject(dt, types) # Nil /\ Len(AsObject(dt, types).fields) = 0 THEN FALSE
    ELSE TRUE

\* One MetadataData, for the mapped attribute m = [name, elem, required,
\* type], and the scope after its variable name was made unique.
MetadataDataAnyPointer(m, serviceAn, scope, types) ==
    LET an == Dup(serviceAn, m.type, m.required)
    IN  [Name |-> m.elem,
         AttributeName |-> m.name,
         FieldName |-> IF ~IsObject(serviceAn.att, types) THEN NoIdent
                       ELSE Goify(m.name, TRUE),
         VarName |-> Unique(scope, Goify(m.name, FALSE)),
         Required |-> m.required,
         Type |-> m.type,
         TypeName |-> AnalyzerName(an, FALSE),
         Pointer |-> IsPointer(an),
         Slice |-> Underlying(m.type, types).kind = "array",
         Map |-> Underlying(m.type, types).kind = "map"]

MetadataDataGoifyOnly(m, serviceAn, scope, types) ==
    LET an == Dup(serviceAn, m.type, m.required)
    IN  [Name |-> m.elem,
         AttributeName |-> m.name,
         FieldName |-> IF ~IsObject(serviceAn.att, types) THEN NoIdent
                       ELSE Goify(m.name, TRUE),
         VarName |-> Goify(m.name, FALSE),
         Required |-> m.required,
         Type |-> m.type,
         TypeName |-> AnalyzerName(an, FALSE),
         Pointer |-> IsPointer(an) /\ IsPrimitive(m.type, types),
         Slice |-> Underlying(m.type, types).kind = "array",
         Map |-> Underlying(m.type, types).kind = "map"]

MetadataData(m, serviceAn, scope, types) ==
    LET an == Dup(serviceAn, m.type, m.required)
    IN  [Name |-> m.elem,
         AttributeName |-> m.name,
         FieldName |-> IF ~IsObject(serviceAn.att, types) THEN NoIdent
                       ELSE Goify(m.name, TRUE),
         VarName |-> Unique(scope, Goify(m.name, FALSE)),
         Required |-> m.required,
         Type |-> m.type,
         TypeName |-> AnalyzerName(an, FALSE),
         Pointer |-> IsPointer(an) /\ IsPrimitive(m.type, types),
         Slice |-> Underlying(m.type, types).kind = "array",
         Map |-> Underlying(m.type, types).kind = "map"]

\* extractMetadata: [metadata, scope].
RECURSIVE extractMetadataFrom(_, _, _, _, _)
extractMetadataFrom(a, serviceAn, scope, types, metadata) ==
    IF a = <<>> THEN [metadata |-> metadata, scope |-> scope]
    ELSE LET md == MetadataData(Head(a), serviceAn, scope, types)
         IN  extractMetadataFrom(Tail(a), serviceAn, scope \cup {md.VarName}, types,
                                 Append(metadata, md))
extractMetadata(a, serviceAn, scope, types) ==
    extractMetadataFrom(a, serviceAn, scope, types, <<>>)

\* The InitArgData made from a MetadataData (request metadata, headers,
\* trailers).
MetadataArg(m) ==
    [Name |-> m.VarName, Ref |-> m.VarName, FieldName |-> m.FieldName,
     TypeName |-> m.TypeName, Pointer |-> m.Pointer, Required |-> m.Required]
MetadataArgs(md) == [i \in DOMAIN md |-> MetadataArg(md[i])]

\* ServiceData.ValidationFor.
ValidationFor(sd, name) ==
    LET found == {i \in DOMAIN sd.Validations : sd.Validations[i].SrcName = name}
    IN  IF found = {} THEN Nil
        ELSE sd.Validations[CHOOSE i \in found : \A j \in found : i <= j]

\* buildConvertData.  mismatch: protoBufTransform returns an error for this
\* pair of shapes.  fn is what the caller's function does to the InitData:
\* strip (the Args are emptied) and extra (the arguments appended); the nil
\* function is [strip |-> FALSE, extra |-> <<>>].
buildConvertDataSrcTwice(source, target, sourceVar, targetVar, proto, sd, fn, types, mismatch) ==
    IF mismatch THEN Nil
    ELSE
    LET args == <<[Name |-> Ident(sourceVar), Ref |-> Ident(sourceVar),
                   FieldName |-> NoIdent,
                   TypeName |-> AnalyzerName(source, TRUE),
                   Pointer |-> FALSE, Required |-> FALSE]>>
    IN  [SrcName |-> AnalyzerName(source, TRUE),
         TgtName |-> AnalyzerName(source, TRUE),
         Init |-> [Name |-> IF IsPrimitive(target.att, types)
                            THEN AnalyzerName(source, FALSE)
                            ELSE AnalyzerName(target, FALSE),
                   ReturnVarName |-> targetVar,
                   ReturnIsStruct |-> IsObject(target.att, types),
                   Args |-> (IF fn.strip THEN <<>> ELSE args) \o fn.extra],
         Validation |-> IF ~proto
                        THEN ValidationFor(sd, protoBufMessageName(source.att))
                        ELSE Nil]

buildConvertData(source, target, sourceVar, targetVar, proto, sd, fn, types, mismatch) ==
    IF mismatch THEN Nil
    ELSE
    LET args == <<[Name |-> Ident(sourceVar), Ref |-> Ident(sourceVar),
                   FieldName |-> NoIdent,
                   TypeName |-> AnalyzerName(source, TRUE),
                   Pointer |-> FALSE, Required |-> FALSE]>>
    IN  [SrcName |-> AnalyzerName(source, TRUE),
         TgtName |-> AnalyzerName(target, TRUE),
         Init |-> [Name |-> IF IsPrimitive(target.att, types)
                            THEN AnalyzerName(source, FALSE)
                            ELSE AnalyzerName(target, FALSE),
                   ReturnVarName |-> targetVar,
                   ReturnIsStruct |-> IsObject(target.att, types),
                   Args |-> (IF fn.strip THEN <<>> ELSE args) \o fn.extra],
         Validation |-> IF ~proto
                        THEN ValidationFor(sd, protoBufMessageName(source.att))
                        ELSE Nil]

NoFn == [strip |-> FALSE, extra |-> <<>>]

buildRequestConvertDataKeepBody(requestAn, payloadAn, md, e, sd, svr, types) ==
    IF (svr /\ ~needInit(e.Payload, types)) \/ (~svr /\ IsPayloadStreaming(e))
    THEN Nil
    ELSE IF svr
    THEN buildConvertData(requestAn, payloadAn, "message", "payload", FALSE, sd,
                          [strip |-> FALSE,
                           extra |-> MetadataArgs(md)],
                          types, e.Mismatch)
    ELSE buildConvertData(payloadAn, requestAn, "payload", "message", TRUE, sd,
                          [strip |-> e.StreamingPayload # Empty, extra |-> <<>>],
                          types, e.Mismatch)

buildRequestConvertDataAlways(requestAn, payloadAn, md, e, sd, svr, types) ==
    IF svr
    THEN buildConvertData(requestAn, payloadAn, "message", "payload", FALSE, sd,
                          [strip |-> e.StreamingPayload # Empty,
                           extra |-> MetadataArgs(md)],
                          types, e.Mismatch)
    ELSE buildConvertData(payloadAn, requestAn, "payload", "message", TRUE, sd,
                          [strip |-> e.StreamingPayload # Empty, extra |-> <<>>],
                          types, e.Mismatch)

buildRequestConvertDataBothNeedInit(requestAn, payloadAn, md, e, sd, svr, types) ==
    IF ~needInit(e.Payload, types) \/ (~svr /\ IsPayloadStreaming(e))
    THEN Nil
    ELSE IF svr
    THEN buildConvertData(requestAn, payloadAn, "message", "payload", FALSE, sd,
                          [strip |-> e.StreamingPayload # Empty,
                           extra |-> MetadataArgs(md)],
                          types, e.Mismatch)
    ELSE buildConvertData(payloadAn, requestAn, "payload", "message", TRUE, sd,
                          [strip |-> e.StreamingPayload # Empty, extra |-> <<>>],
                          types, e.Mismatch)

buildRequestConvertData(requestAn, payloadAn, md, e, sd, svr, types) ==
    IF (svr /\ ~needInit(e.Payload, types)) \/ (~svr /\ IsPayloadStreaming(e))
    THEN Nil
    ELSE IF svr
    THEN buildConvertData(requestAn, payloadAn, "message", "payload", FALSE, sd,
                          [strip |-> e.StreamingPayload # Empty,
                           extra |-> MetadataArgs(md)],
                          types, e.Mismatch)
    ELSE buildConvertData(payloadAn, requestAn, "payload", "message", TRUE, sd,
                          [strip |-> e.StreamingPayload # Empty, extra |-> <<>>],
                          types, e.Mismatch)

buildResponseConvertDataStreamingOnly(responseAn, resultAn, hdrs, trlrs, e, sd, svr, types) ==
    IF IsStreaming(e)
    THEN Nil
    ELSE IF svr
    THEN buildConvertData(resultAn, responseAn, "result", "message", TRUE, sd,
                          NoFn, types, e.Mismatch)
    ELSE buildConvertData(responseAn, resultAn, "message", "result", FALSE, sd,
                          [strip |-> FALSE,
                           extra |-> MetadataArgs(hdrs) \o MetadataArgs(trlrs)],
                          types, e.Mismatch)

buildResponseConvertDataTrailersFirst(responseAn, resultAn, hdrs, trlrs, e, sd, svr, types) ==
    IF IsStreaming(e) \/ ~needInit(e.Result, types)
    THEN Nil
    ELSE IF svr
    THEN buildConvertData(resultAn, responseAn, "result", "message", TRUE, sd,
                          NoFn, types, e.Mismatch)
    ELSE buildConvertData(responseAn, resultAn, "message", "result", FALSE, sd,
                          [strip |-> FALSE,
                           extra |-> MetadataArgs(trlrs) \o MetadataArgs(hdrs)],
                          types, e.Mismatch)

buildResponseConvertDataNeedInitOnly(responseAn, resultAn, hdrs, trlrs, e, sd, svr, types) ==
    IF ~needInit(e.Result, types)
    THEN Nil
    ELSE IF svr
    THEN buildConvertData(resultAn, responseAn, "result", "message", TRUE, sd,
                          NoFn, types, e.Mismatch)
    ELSE buildConvertData(responseAn, resultAn, "message", "result", FALSE, sd,
                          [strip |-> FALSE,
                           extra |-> MetadataArgs(hdrs) \o MetadataArgs(trlrs)],
                          types, e.Mismatch)

buildResponseConvertData(responseAn, resultAn, hdrs, trlrs, e, sd, svr, types) ==
    IF IsStreaming(e) \/ ~needInit(e.Result, types)
    THEN Nil
    ELSE IF svr
    THEN buildConvertData(resultAn, responseAn, "result", "message", TRUE, sd,
                          NoFn, types, e.Mismatch)
    ELSE buildConvertData(responseAn, resultAn, "message", "result", FALSE, sd,
                          [strip |-> FALSE,
                           extra |-> MetadataArgs(hdrs) \o MetadataArgs(trlrs)],
                          types, e.Mismatch)

\* buildErrorsData: one ErrorData for every error of e.GRPCErrors, in order.
\* An error of the design is [Name, StatusCode, Description, Type].
ErrorDataOKStatus(v) ==
    [Name |-> v.Name,
     Ref |-> AnalyzerName(Analyzer(v.Type, svcPkgName, TRUE), TRUE),
     Response |-> [StatusCode |-> statusCodeToGRPCConst(0),
                   Description |-> v.Description]]

ErrorData(v) ==
    [Name |-> v.Name,
     Ref |-> AnalyzerName(Analyzer(v.Type, svcPkgName, TRUE), TRUE),
     Response |-> [StatusCode |-> statusCodeToGRPCConst(v.StatusCode),
                   Description |-> v.Description]]

buildErrorsDataReversed(e, sd) ==
    [i \in DOMAIN e.GRPCErrors |-> ErrorData(e.GRPCErrors[Len(e.GRPCErrors) + 1 - i])]

buildErrorsData(e, sd) ==
    [i \in DOMAIN e.GRPCErrors |-> ErrorData(e.GRPCErrors[i])]

\* ServiceData.Endpoint: the first endpoint of that name, or nil.
Endpoint(sd, name) ==
    LET found == {i \in DOMAIN sd.Endpoints : sd.Endpoints[i].Name = name}
    IN  IF found = {} THEN Nil
        ELSE sd.Endpoints[CHOOSE i \in found : \A j \in found : i <= j]

buildStreamDataSendOnly(e, sd, svr, types) ==
    LET ed == Endpoint(sd, e.Name)
        spayloadAn == Analyzer(e.StreamingPayload, svcPkgName, TRUE)
        resultAn == resultAnalyzer(e)
        requestAn == Analyzer(e.StreamingRequest, pbPkgName, TRUE)
        responseAn == Analyzer(e.ResponseMessage, pbPkgName, TRUE)
        resVar == IF e.ViewedResult THEN "vresult" ELSE "result"
        sendType ==
            IF svr
            THEN IF e.Result # Empty
                 THEN buildConvertData(resultAn, responseAn, resVar, "v", TRUE, sd,
                                       NoFn, types, e.Mismatch)
                 ELSE Nil
            ELSE IF e.StreamingPayload # Empty
                 THEN buildConvertData(spayloadAn, requestAn, "spayload", "v", TRUE, sd,
                                       NoFn, types, e.Mismatch)
                 ELSE Nil
        recvType ==
            IF svr
            THEN IF e.StreamingPayload # Empty
                 THEN buildConvertData(requestAn, spayloadAn, "v", "spayload", FALSE, sd,
                                       NoFn, types, e.Mismatch)
                 ELSE Nil
            ELSE IF e.Result # Empty
                 THEN buildConvertData(responseAn, resultAn, "v", resVar, FALSE, sd,
                                       NoFn, types, e.Mismatch)
                 ELSE Nil
    IN  [kind |-> "stream",
         Type |-> IF svr THEN "server" ELSE "client",
         Endpoint |-> ed.Name,
         SendConvert |-> sendType,
         RecvConvert |-> Nil]

\* buildStreamData.  e is the endpoint whose Request, StreamingRequest and
\* ResponseMessage are the wire messages made by makeProtoBufMessage.
buildStreamData(e, sd, svr, types) ==
    LET ed == Endpoint(sd, e.Name)
        spayloadAn == Analyzer(e.StreamingPayload, svcPkgName, TRUE)
        resultAn == resultAnalyzer(e)
        requestAn == Analyzer(e.StreamingRequest, pbPkgName, TRUE)
        responseAn == Analyzer(e.ResponseMessage, pbPkgName, TRUE)
        resVar == IF e.ViewedResult THEN "vresult" ELSE "result"
        sendType ==
            IF svr
            THEN IF e.Result # Empty
                 THEN buildConvertData(resultAn, responseAn, resVar, "v", TRUE, sd,
                                       NoFn, types, e.Mismatch)
                 ELSE Nil
            ELSE IF e.StreamingPayload # Empty
                 THEN buildConvertData(spayloadAn, requestAn, "spayload", "v", TRUE, sd,
                                       NoFn, types, e.Mismatch)
                 ELSE Nil
        recvType ==
            IF svr
            THEN IF e.StreamingPayload # Empty
                 THEN buildConvertData(requestAn, spayloadAn, "v", "spayload", FALSE, sd,
                                       NoFn, types, e.Mismatch)
                 ELSE Nil
            ELSE IF e.Result # Empty
                 THEN buildConvertData(responseAn, resultAn, "v", resVar, FALSE, sd,
                                       NoFn, types, e.Mismatch)
                 ELSE Nil
    IN  [kind |-> "stream",
         Type |-> IF svr THEN "server" ELSE "client",
         Endpoint |-> ed.Name,
         SendConvert |-> sendType,
         RecvConvert |-> recvType]

\* gather security requirements.  A requirement is the list of its schemes,
\* a scheme of the design is [SchemeName, In].  SchemeData: the scheme data
\* of that name, with In set from the scheme of the endpoint.
SchemeData(sch) == [SchemeName |-> sch.SchemeName, In |-> sch.In]

\* service.AppendScheme: the scheme is appended unless the list has a scheme
\* of that name.
AppendScheme(s, sch) ==
    IF \E i \in DOMAIN s : s[i].SchemeName = sch.SchemeName THEN s ELSE Append(s, sch)

\* The schemes of all the requirements, in the order of the two loops.
RECURSIVE RequiredSchemes(_)
RequiredSchemes(reqs) ==
    IF reqs = <<>> THEN <<>> ELSE Head(reqs) \o RequiredSchemes(Tail(reqs))

RECURSIVE gatherSchemesSwapped(_, _)
gatherSchemesSwapped(schs, acc) ==
    IF schs = <<>> THEN acc
    ELSE LET sch == SchemeData(Head(schs))
         IN  gatherSchemesSwapped(Tail(schs),
                 IF sch.In = "message"
                 THEN [acc EXCEPT !.metSch = AppendScheme(@, sch)]
                 ELSE [acc EXCEPT !.msgSch = AppendScheme(@, sch)])

RECURSIVE gatherSchemes(_, _)
gatherSchemes(schs, acc) ==
    IF schs = <<>> THEN acc
    ELSE LET sch == SchemeData(Head(schs))
         IN  gatherSchemes(Tail(schs),
                 IF sch.In = "message"
                 THEN [acc EXCEPT !.msgSch = AppendScheme(@, sch)]
                 ELSE [acc EXCEPT !.metSch = AppendScheme(@, sch)])

(***************************************************************************)
(* analyze.  st is the state of one run of analyze: sd (the ServiceData    *)
(* under construction), seen, scope (svc.Scope), types (the user types of  *)
(* the design and the wire messages made so far) and panic (the run died   *)
(* on msgs[0] of an empty list).                                           *)
(***************************************************************************)
\* The collect closure of analyze: [msg, sd, seen, panic].
collectOwnSeen(att, sd, seenNow, types, validated) ==
    LET c == collectMessages(att, types, validated,
                 [data |-> <<>>, seen |-> {}, validations |-> sd.Validations])
    IN  [msg |-> IF c.data = <<>> THEN Nil ELSE c.data[1],
         panic |-> c.data = <<>>,
         sd |-> [sd EXCEPT !.Messages = @ \o c.data, !.Validations = c.validations],
         seen |-> seenNow \cup c.seen]

collect(att, sd, seenNow, types, validated) ==
    LET c == collectMessages(att, types, validated,
                 [data |-> <<>>, seen |-> seenNow, validations |-> sd.Validations])
    IN  [msg |-> IF c.data = <<>> THEN Nil ELSE c.data[1],
         panic |-> c.data = <<>>,
         sd |-> [sd EXCEPT !.Messages = @ \o c.data, !.Validations = c.validations],
         seen |-> c.seen]

NoCollect(sd, seenNow) == [msg |-> Nil, panic |-> FALSE, sd |-> sd, seen |-> seenNow]

\* The types after makeProtoBufMessage has turned the request, streaming
\* request and response of the endpoint into wire messages.
wireTypes(e, types) ==
    (MessageName(e.Name, "Request") :> makeProtoBufMessage(e.Request))
    @@ (MessageName(e.Name, "Response") :> makeProtoBufMessage(e.ResponseMessage))
    @@ (IF e.StreamingPayload # Empty
        THEN MessageName(e.Name, "StreamingRequest")
                 :> makeProtoBufMessage(e.StreamingRequest)
        ELSE <<>>)
    @@ types

\* The endpoint with the wire messages as its request, streaming request and
\* response message.
wireEndpoint(e) ==
    [e EXCEPT !.Request = UserType(MessageName(e.Name, "Request")),
              !.StreamingRequest = IF e.StreamingPayload # Empty
                                   THEN UserType(MessageName(e.Name, "StreamingRequest"))
                                   ELSE e.StreamingRequest,
              !.ResponseMessage = UserType(MessageName(e.Name, "Response"))]

\* build request data: the RequestData, what collect did (msg) and svc.Scope
\* after the request metadata.  em is wireEndpoint(e).
requestData(st, e, em, validated, types) ==
    LET payloadAn == Analyzer(e.Payload, svcPkgName, TRUE)
        requestAn == Analyzer(em.Request, pbPkgName, TRUE)
        reqMD == extractMetadata(e.Metadata, payloadAn, st.scope, types)
        CLIArgs ==
            (IF Len(AsObject(em.Request, types).fields) > 0
             THEN <<[Name |-> Ident("message"), Ref |-> Ident("message"),
                     FieldName |-> NoIdent,
                     TypeName |-> AnalyzerName(requestAn, TRUE),
                     Pointer |-> FALSE, Required |-> FALSE]>>
             ELSE <<>>) \o MetadataArgs(reqMD.metadata)
        msg == IF em.StreamingRequest # Empty
               THEN collect(em.StreamingRequest, st.sd, st.seen, types, validated)
               ELSE collect(em.Request, st.sd, st.seen, types, validated)
    IN  [request |->
             [Metadata |-> reqMD.metadata,
              ServerConvert |->
                  buildRequestConvertData(requestAn, payloadAn, reqMD.metadata, e,
                                          st.sd, TRUE, types),
              ClientConvert |->
                  buildRequestConvertData(requestAn, payloadAn, reqMD.metadata, e,
                                          st.sd, FALSE, types),
              CLIArgs |-> CLIArgs,
              Message |-> msg.msg],
         msg |-> msg,
         scope |-> reqMD.scope]

\* build response data: the ResponseData, what collect did (msg) and
\* svc.Scope after the headers and trailers.  rq is the result of
\* requestData.
responseData(rq, e, em, validated, types) ==
    LET responseAn == Analyzer(em.ResponseMessage, pbPkgName, TRUE)
        resultAn == resultAnalyzer(e)
        hdrs == extractMetadata(e.Headers, resultAn, rq.scope, types)
        trlrs == extractMetadata(e.Trailers, resultAn, hdrs.scope, types)
        collected == em.ResponseMessage # Empty \/ ~IsStreaming(e)
        msg == IF collected
               THEN collect(em.ResponseMessage, rq.msg.sd, rq.msg.seen, types, validated)
               ELSE NoCollect(rq.msg.sd, rq.msg.seen)
    IN  [response |->
             [Headers |-> hdrs.metadata,
              Trailers |-> trlrs.metadata,
              ServerConvert |->
                  buildResponseConvertData(responseAn, resultAn, hdrs.metadata,
                                           trlrs.metadata, e, rq.msg.sd, TRUE, types),
              ClientConvert |->
                  buildResponseConvertData(responseAn, resultAn, hdrs.metadata,
                                           trlrs.metadata, e, rq.msg.sd, FALSE, types),
              Message |-> msg.msg],
         collected |-> collected,
         msg |-> msg,
         scope |-> trlrs.scope]

\* One entry of the trace of analyze: the step taken for an endpoint and the
\* number of messages attached to sd.Messages when it is taken.
Step(en, step, sd) == [endpoint |-> en, step |-> step, messages |-> Len(sd.Messages)]

\* The entry of a step that collects messages: also the seen map, the names
\* of sd.Messages and sd.Validations when the collect closure returns.  c is
\* what collect returned.
CollectStep(en, step, c) ==
    [endpoint |-> en, step |-> step, messages |-> Len(c.sd.Messages),
     seen |-> c.seen, names |-> Names(c.sd.Messages), validations |-> c.sd.Validations]

\* The steps of the loop body in the order of its statements.  sd is the
\* service data when the body starts.
endpointTrace(sd, e, rq, rs) ==
    <<Step(e.Name, "errors", sd),
      Step(e.Name, "request metadata", sd),
      Step(e.Name, "request conversions", sd),
      CollectStep(e.Name, "request message", rq.msg),
      Step(e.Name, "response metadata", rq.msg.sd),
      Step(e.Name, "response conversions", rq.msg.sd)>>
    \o (IF rs.collected THEN <<CollectStep(e.Name, "response message", rs.msg)>> ELSE <<>>)
    \o (IF IsStreaming(e) THEN <<Step(e.Name, "streams", rs.msg.sd)>> ELSE <<>>)

\* The EndpointData appended to sd.Endpoints, and the stream data set on it
\* once it is appended.  errors is what buildErrorsData returned before the
\* request data were built.
endpointData(st, e, em, types, errors, rq, rs) ==
    LET sch == gatherSchemes(RequiredSchemes(e.Requirements),
                             [msgSch |-> <<>>, metSch |-> <<>>])
        ed == [Name |-> e.Name, Request |-> rq.request, Response |-> rs.response,
               MessageSchemes |-> sch.msgSch, MetadataSchemes |-> sch.metSch,
               Errors |-> errors, ServerStream |-> Nil, ClientStream |-> Nil]
        sdAppended == [rs.msg.sd EXCEPT !.Endpoints = Append(@, ed)]
    IN  IF IsStreaming(e)
        THEN [ed EXCEPT !.ServerStream = buildStreamData(em, sdAppended, TRUE, types),
                        !.ClientStream = buildStreamData(em, sdAppended, FALSE, types)]
        ELSE ed

\* The state of analyze after the loop body, from the request data, the
\* response data and the endpoint data.
endpointDone(st, e, types, rq, rs, ed) ==
    IF rq.msg.panic
    THEN [st EXCEPT !.panic = TRUE]
    ELSE IF rs.msg.panic
    THEN [st EXCEPT !.panic = TRUE, !.sd = rq.msg.sd, !.seen = rq.msg.seen,
                    !.scope = rs.scope, !.types = types]
    ELSE [sd |-> [rs.msg.sd EXCEPT !.Endpoints = Append(@, ed)],
          seen |-> rs.msg.seen,
          scope |-> rs.scope,
          types |-> types,
          panic |-> FALSE,
          trace |-> st.trace \o endpointTrace(st.sd, e, rq, rs)]

analyzeResponse(st, e, em, validated, types, errors, rq, rs) ==
    endpointDone(st, e, types, rq, rs, endpointData(st, e, em, types, errors, rq, rs))

analyzeRequest(st, e, em, validated, types, errors, rq) ==
    analyzeResponse(st, e, em, validated, types, errors, rq,
                    responseData(rq, e, em, validated, types))

analyzeWire(st, e, em, validated, types) ==
    analyzeRequest(st, e, em, validated, types, buildErrorsData(e, st.sd),
                   requestData(st, e, em, validated, types))

\* One run of the loop body of analyze.
analyzeEndpoint(st, e, validated) ==
    analyzeWire(st, e, wireEndpoint(e), validated, wireTypes(e, st.types))

RECURSIVE analyzeEndpoints(_, _, _)
analyzeEndpoints(st, es, validated) ==
    IF es = <<>> \/ st.panic THEN st
    ELSE analyzeEndpoints(analyzeEndpoint(st, Head(es), validated), Tail(es), validated)

analyzeSharedScope(design, name) ==
    analyzeEndpoints(
        [sd |-> [Name |-> name, PkgName |-> pbPkgName, Endpoints |-> <<>>,
                 Messages |-> <<>>, Validations |-> <<>>],
         seen |-> {},
         scope |-> UNION {{m.VarName : m \in Range(ed.Request.Metadata)
                                         \cup Range(ed.Response.Headers)
                                         \cup Range(ed.Response.Trailers)} :
                             ed \in UNION {Range(log[i].data.Endpoints) : i \in DOMAIN log}},
         types |-> design.types,
         panic |-> FALSE,
         trace |-> <<>>],
        design.services[name].GRPCEndpoints, design.validated)

analyzeSharedSeen(design, name) ==
    analyzeEndpoints(
        [sd |-> [Name |-> name, PkgName |-> pbPkgName, Endpoints |-> <<>>,
                 Messages |-> <<>>, Validations |-> <<>>],
         seen |-> UNION {Names(log[i].data.Messages) : i \in DOMAIN log}
                     \ {MessageName(en, sf) : en \in {"M1", "M2"},
                            sf \in {"Request", "StreamingRequest", "Response"}},
         scope |-> {},
         types |-> design.types,
         panic |-> FALSE,
         trace |-> <<>>],
        design.services[name].GRPCEndpoints, design.validated)

\* analyze: the state after the loop over gs.GRPCEndpoints.
analyze(design, name) ==
    analyzeEndpoints(
        [sd |-> [Name |-> name, PkgName |-> pbPkgName, Endpoints |-> <<>>,
                 Messages |-> <<>>, Validations |-> <<>>],
         seen |-> {},
         scope |-> {},
         types |-> design.types,
         panic |-> FALSE,
         trace |-> <<>>],
        design.services[name].GRPCEndpoints, design.validated)

(***************************************************************************)
(* ServicesData.Get.                                                       *)
(***************************************************************************)
ServiceNames == {"s1", "s2"}

NoCall == [name |-> "", kind |-> "none", data |-> Nil, analyzed |-> FALSE, trace |-> <<>>]

GetAlwaysAnalyze(name) ==
    /\ calls < MaxCalls
    /\ ret.kind # "panic"
    /\ calls' = calls + 1
    /\ IF root.services[name] = Nil
       THEN /\ d' = d
            /\ ret' = [name |-> name, kind |-> "return", data |-> Nil, analyzed |-> FALSE,
                        trace |-> <<>>]
       ELSE LET a == analyze(root, name)
            IN  IF a.panic
                THEN /\ d' = d
                     /\ ret' = [name |-> name, kind |-> "panic", data |-> Nil,
                                analyzed |-> TRUE, trace |-> a.trace]
                ELSE /\ d' = (name :> a.sd) @@ d
                     /\ ret' = [name |-> name, kind |-> "return", data |-> a.sd,
                                analyzed |-> TRUE, trace |-> a.trace]
    /\ log' = IF ret'.analyzed /\ ret'.kind = "return"
              THEN Append(log, [name |-> name, data |-> ret'.data])
              ELSE log
    /\ UNCHANGED <<root, att0, defs, seen0, work, data, seen, validations, steps, rpc>>

GetStoreNil(name) ==
    /\ calls < MaxCalls
    /\ ret.kind # "panic"
    /\ calls' = calls + 1
    /\ IF name \in DOMAIN d
       THEN /\ d' = d
            /\ ret' = [name |-> name, kind |-> "return", data |-> d[name],
                       analyzed |-> FALSE, trace |-> <<>>]
       ELSE IF root.services[name] = Nil
       THEN /\ d' = (name :> Nil) @@ d
            /\ ret' = [name |-> name, kind |-> "return", data |-> Nil, analyzed |-> FALSE,
                        trace |-> <<>>]
       ELSE LET a == analyze(root, name)
            IN  IF a.panic
                THEN /\ d' = d
                     /\ ret' = [name |-> name, kind |-> "panic", data |-> Nil,
                                analyzed |-> TRUE, trace |-> a.trace]
                ELSE /\ d' = (name :> a.sd) @@ d
                     /\ ret' = [name |-> name, kind |-> "return", data |-> a.sd,
                                analyzed |-> TRUE, trace |-> a.trace]
    /\ log' = IF ret'.analyzed /\ ret'.kind = "return"
              THEN Append(log, [name |-> name, data |-> ret'.data])
              ELSE log
    /\ UNCHANGED <<root, att0, defs, seen0, work, data, seen, validations, steps, rpc>>

Get(name) ==
    /\ calls < MaxCalls
    /\ ret.kind # "panic"
    /\ calls' = calls + 1
    /\ IF name \in DOMAIN d
       THEN /\ d' = d
            /\ ret' = [name |-> name, kind |-> "return", data |-> d[name],
                       analyzed |-> FALSE, trace |-> <<>>]
       ELSE IF root.services[name] = Nil
       THEN /\ d' = d
            /\ ret' = [name |-> name, kind |-> "return", data |-> Nil, analyzed |-> FALSE,
                        trace |-> <<>>]
       ELSE LET a == analyze(root, name)
            IN  IF a.panic
                THEN /\ d' = d
                     /\ ret' = [name |-> name, kind |-> "panic", data |-> Nil,
                                analyzed |-> TRUE, trace |-> a.trace]
                ELSE /\ d' = (name :> a.sd) @@ d
                     /\ ret' = [name |-> name, kind |-> "return", data |-> a.sd,
                                analyzed |-> TRUE, trace |-> a.trace]
    /\ log' = IF ret'.analyzed /\ ret'.kind = "return"
              THEN Append(log, [name |-> name, data |-> ret'.data])
              ELSE log
    /\ UNCHANGED <<root, att0, defs, seen0, work, data, seen, validations, steps, rpc>>

(***************************************************************************)
(* The generated server methods (the server interface code of the golden   *)
(* files): a method calls the Decode step of its handler when it streams,  *)
(* then its Handle step, and turns the error of a step into the error it   *)
(* returns.                                                                *)
(***************************************************************************)
\* An error value: code is the code of its gRPC status ("" when the error
\* is no gRPC status), name is what ErrorName returns ("" when the error is
\* no ErrorNamer) and msg is what Error returns.
Error(code, name, msg) == [kind |-> "error", code |-> code, name |-> name, msg |-> msg]

\* status.FromError: the status of a gRPC status error and true, a nil
\* status and true for a nil error, a status of code Unknown with the
\* message of the error and false for any other error.
FromError(err) ==
    IF err = Nil THEN [sts |-> Nil, ok |-> TRUE]
    ELSE IF err.code # "" THEN [sts |-> [code |-> err.code, msg |-> err.msg], ok |-> TRUE]
    ELSE [sts |-> [code |-> "codes.Unknown", msg |-> err.msg], ok |-> FALSE]

\* status.Error and Status.Err: the error of a status.
StatusError(code, msg) == Error(code, "", msg)
StatusErr(sts) == IF sts = Nil THEN Nil ELSE StatusError(sts.code, sts.msg)

\* The errors declared on the methods with errors, with the status code of
\* each: the cases of the switch on ErrorName.
DeclaredErrors ==
    <<[Name |-> "timeout", StatusCode |-> "codes.Canceled"],
      [Name |-> "internal", StatusCode |-> "codes.Unknown"],
      [Name |-> "bad_request", StatusCode |-> "codes.InvalidArgument"]>>

\* The generated methods: the name, whether the method takes a stream (and
\* so calls Decode before Handle) and the cases of its switch on ErrorName.
ServerMethod(name, streaming, errors) ==
    [name |-> name, streaming |-> streaming, errors |-> errors]
ServerMethods ==
    {ServerMethod("MethodUnaryRPCA", FALSE, <<>>),
     ServerMethod("MethodUnaryRPCB", FALSE, <<>>),
     ServerMethod("MethodUnaryRPCNoPayload", FALSE, <<>>),
     ServerMethod("MethodUnaryRPCNoResult", FALSE, <<>>),
     ServerMethod("MethodUnaryRPCWithErrorsNoResult", FALSE, DeclaredErrors),
     ServerMethod("MethodServerStreamingRPC", TRUE, <<>>),
     ServerMethod("MethodClientStreamingRPC", TRUE, <<>>),
     ServerMethod("MethodClientStreamingRPCWithPayload", TRUE, <<>>),
     ServerMethod("MethodBidirectionalStreamingRPC", TRUE, <<>>),
     ServerMethod("MethodBidirectionalStreamingRPCWithPayload", TRUE, <<>>),
     ServerMethod("MethodBidirectionalStreamingRPCWithErrors", TRUE, DeclaredErrors)}

\* The errors a Decode or Handle step returns in the model.
StepErrors ==
    {Error(code, name, msg) :
        code \in {"", "codes.NotFound"},
        name \in {"", "timeout", "internal", "bad_request", "not_declared"},
        msg \in {"boom", "too late"}}

\* The error a method returns for the error err (not nil) of a step: err
\* itself when it is a gRPC status, the status of the case of its ErrorName
\* when the switch has one, the status FromError made otherwise.
ErrorCase(err, errors) == {i \in DOMAIN errors : errors[i].Name = err.name}

errorReturnNamedFirst(err, errors) ==
    IF err.name # "" /\ ErrorCase(err, errors) # {}
    THEN StatusError(errors[CHOOSE i \in ErrorCase(err, errors) : TRUE].StatusCode, err.msg)
    ELSE IF FromError(err).ok THEN err
    ELSE StatusErr(FromError(err).sts)

errorReturn(err, errors) ==
    IF FromError(err).ok THEN err
    ELSE IF err.name # "" /\ ErrorCase(err, errors) # {}
    THEN StatusError(errors[CHOOSE i \in ErrorCase(err, errors) : TRUE].StatusCode, err.msg)
    ELSE StatusErr(FromError(err).sts)

\* rpc: the method called, where the call is (pc), the steps it has called
\* with what each returned (events), and what the method returned.
NoRPC == [method |-> Nil, pc |-> "idle", events |-> <<>>, resp |-> Nil, err |-> Nil]
Event(step, err) == [step |-> step, err |-> err]
Response(m) == [kind |-> "response", method |-> m.name]

\* A generated method is called: a streaming method starts with Decode, a
\* unary one with Handle.
Serve(m) ==
    /\ rpc.pc \in {"idle", "returned"}
    /\ calls < MaxCalls
    /\ calls' = calls + 1
    /\ rpc' = [method |-> m, pc |-> IF m.streaming THEN "decode" ELSE "handle",
               events |-> <<>>, resp |-> Nil, err |-> Nil]
    /\ UNCHANGED <<root, d, ret, att0, defs, seen0, work, data, seen, validations, steps, log>>

\* p, err := s.H.Decode(...) of a streaming method and the statements up to
\* the call of Handle.
DecodeThenHandleAnyway(err) ==
    /\ rpc.pc = "decode"
    /\ rpc' = [rpc EXCEPT !.events = Append(@, Event("Decode", err)),
                          !.pc = "handle"]
    /\ UNCHANGED <<root, d, ret, calls, att0, defs, seen0, work, data, seen, validations,
                   steps, log>>

Decode(err) ==
    /\ rpc.pc = "decode"
    /\ rpc' = IF err # Nil
              THEN [rpc EXCEPT !.events = Append(@, Event("Decode", err)),
                               !.pc = "returned",
                               !.err = errorReturn(err, rpc.method.errors)]
              ELSE [rpc EXCEPT !.events = Append(@, Event("Decode", err)),
                               !.pc = "handle"]
    /\ UNCHANGED <<root, d, ret, calls, att0, defs, seen0, work, data, seen, validations,
                   steps, log>>

\* The call of s.H.Handle and the statements up to the return: a unary
\* method returns the response of Handle, a streaming one nil.
Handle(err) ==
    /\ rpc.pc = "handle"
    /\ rpc' = IF err # Nil
              THEN [rpc EXCEPT !.events = Append(@, Event("Handle", err)),
                               !.pc = "returned",
                               !.err = errorReturn(err, rpc.method.errors)]
              ELSE [rpc EXCEPT !.events = Append(@, Event("Handle", err)),
                               !.pc = "returned",
                               !.resp = IF rpc.method.streaming THEN Nil
                                        ELSE Response(rpc.method)]
    /\ UNCHANGED <<root, d, ret, calls, att0, defs, seen0, work, data, seen, validations,
                   steps, log>>

InitServer ==
    /\ root = <<>> /\ d = <<>> /\ ret = NoCall /\ calls = 0
    /\ att0 = Empty /\ defs = <<>> /\ seen0 = {} /\ work = <<>> /\ data = <<>>
    /\ seen = {} /\ validations = <<>> /\ steps = 0 /\ log = <<>>
    /\ rpc = NoRPC

NextServer ==
    \/ \E m \in ServerMethods : Serve(m)
    \/ \E err \in StepErrors \cup {Nil} : Decode(err)
    \/ \E err \in StepErrors \cup {Nil} : Handle(err)

SpecServer == InitServer /\ [][NextServer]_vars

(***************************************************************************)
(* The designs the model reads.                                            *)
(***************************************************************************)
EndpointNames == {"M1", "M2"}
PayloadTypes == {Empty, Object(<<>>), Primitive, UserType("A")}
ResultTypes == {Empty, Object(<<>>), Primitive, UserType("B")}
StreamingPayloadTypes == {Empty, UserType("A")}
StreamKinds == {"NoStream", "ClientStream", "ServerStream", "Bidirectional"}

\* Mapped attributes: [name, elem, required, type].
Mapped(name, elem, required, type) ==
    [name |-> name, elem |-> elem, required |-> required, type |-> type]
MetadataLists ==
    {<<>>,
     <<Mapped("key", "Authorization", TRUE, Primitive)>>,
     <<Mapped("key", "Authorization", FALSE, Primitive),
       Mapped("tags", "X-Tags", FALSE, Array(Primitive))>>}
HeaderLists == {<<>>, <<Mapped("key", "X-Key", FALSE, Primitive)>>}
TrailerLists == {<<>>, <<Mapped("tags", "X-Tags", TRUE, Array(Primitive))>>}

\* The errors of an endpoint: [Name, StatusCode, Description, Type].
GRPCError(name, code, description) ==
    [Name |-> name, StatusCode |-> code, Description |-> description,
     Type |-> UserType("ServiceError")]
ErrorLists ==
    {<<>>,
     <<GRPCError("timeout", 4, "operation timed out"),
       GRPCError("internal", 13, "internal error"),
       GRPCError("bad_request", 3, "invalid request")>>,
     <<GRPCError("not_found", 5, "not found"),
       GRPCError("missing", 5, "not found")>>}

\* The endpoints of one name with no error and no view.  A streaming payload
\* that is not empty comes with a stream kind that streams the payload; the
\* request and response messages carry the payload and the result, or
\* nothing when every attribute is mapped to metadata.
BaseEndpoints(en) ==
    {e \in [Name : {en},
            Payload : PayloadTypes,
            Result : ResultTypes,
            Stream : StreamKinds,
            StreamingPayload : StreamingPayloadTypes,
            Request : PayloadTypes,
            StreamingRequest : StreamingPayloadTypes,
            ResponseMessage : ResultTypes,
            Metadata : MetadataLists,
            Headers : HeaderLists,
            Trailers : TrailerLists,
            Mismatch : BOOLEAN,
            ViewedResult : {FALSE},
            GRPCErrors : {<<>>},
            Requirements : {<<>>}] :
        /\ e.StreamingPayload # Empty => IsPayloadStreaming(e)
        /\ e.StreamingRequest = e.StreamingPayload
        /\ e.Request \in {e.Payload, Empty}
        /\ e.ResponseMessage \in {e.Result, Empty}}

\* The endpoints with no metadata, no error and no view, whose messages
\* carry the whole payload and result.
PlainEndpoints(en) ==
    {e \in BaseEndpoints(en) :
        /\ e.Metadata = <<>> /\ e.Headers = <<>> /\ e.Trailers = <<>>
        /\ ~e.Mismatch
        /\ e.Request = e.Payload
        /\ e.ResponseMessage = e.Result}

\* The endpoints with declared errors or with a result that has views (a
\* result of the user type B).
ErrorEndpoints(en) ==
    {[e EXCEPT !.GRPCErrors = errs, !.Mismatch = m] :
        e \in PlainEndpoints(en), errs \in ErrorLists \ {<<>>}, m \in BOOLEAN}
ViewedEndpoints(en) ==
    {[e EXCEPT !.ViewedResult = TRUE, !.GRPCErrors = errs, !.Mismatch = m] :
        e \in {p \in PlainEndpoints(en) : p.Result = UserType("B")},
        errs \in ErrorLists, m \in BOOLEAN}

\* The security requirements of an endpoint: each requirement lists schemes
\* [SchemeName, In].  In is where the endpoint carries the key of the scheme,
\* so a scheme has the same In wherever the endpoint requires it.
Scheme(name, in) == [SchemeName |-> name, In |-> in]
RequirementLists ==
    {<<>>,
     <<<<Scheme("jwt", "message")>>>>,
     <<<<Scheme("api_key", "metadata")>>>>,
     <<<<Scheme("jwt", "message"), Scheme("api_key", "metadata")>>>>,
     <<<<Scheme("api_key", "metadata"), Scheme("jwt", "message")>>,
       <<Scheme("jwt", "message"), Scheme("basic", "")>>>>}

\* Unary endpoints with the payload A and security requirements.
SecuredEndpoints(en) ==
    {[e EXCEPT !.Requirements = reqs] :
        e \in {p \in PlainEndpoints(en) : p.Stream = "NoStream" /\ p.Payload = UserType("A")},
        reqs \in RequirementLists \ {<<>>}}

Endpoints(en) ==
    BaseEndpoints(en) \cup ErrorEndpoints(en) \cup ViewedEndpoints(en)
    \cup SecuredEndpoints(en)

\* The definitions of the user types A and B, and of the projected type of
\* B.  A result type with views is an object.
DesignTypes ==
    {[A |-> Object(<<UserType("B"), Primitive>>), B |-> Map(Primitive, UserType("A")),
      BView |-> Map(Primitive, UserType("A"))],
     [A |-> Array(UserType("A")), B |-> Primitive, BView |-> Primitive]}
ViewTypes ==
    [A |-> Array(UserType("A")), B |-> Object(<<UserType("A"), Primitive>>),
     BView |-> Object(<<UserType("A"), Primitive>>)]

\* The services of one or two endpoints.
Service(es) == [kind |-> "service", GRPCEndpoints |-> es]
Services ==
    {Service(<<e>>) : e \in BaseEndpoints("M1") \cup ErrorEndpoints("M1")
                             \cup SecuredEndpoints("M1")}
    \cup {Service(<<e1, e2>>) : e1 \in PlainEndpoints("M1"), e2 \in PlainEndpoints("M2")}
ViewedServices == {Service(<<e>>) : e \in ViewedEndpoints("M1")}

\* A few services, for the runs that change the design between calls.
SomeServices ==
    {sv \in Services :
        \A i \in DOMAIN sv.GRPCEndpoints :
            LET e == sv.GRPCEndpoints[i]
            IN  /\ e \in PlainEndpoints(e.Name)
                /\ e.Stream = "NoStream"
                /\ e.Payload \in {Empty, UserType("A")}
                /\ e.Result = Primitive
                /\ (i = 2 => e.Payload = Empty)}

SomeTypes ==
    [A |-> Object(<<UserType("B"), Primitive>>), B |-> Primitive, BView |-> Primitive]

\* A design with a user type that has the name of a wire message: the user
\* type M2Request, a field of A.
MessageNamedTypes ==
    [A |-> Object(<<UserType("M2Request"), Primitive>>), B |-> Primitive,
     BView |-> Primitive, M2Request |-> Object(<<Primitive>>)]

Design(services, types, validated) ==
    [services |-> services, types |-> types, validated |-> validated]

NoCollectState ==
    /\ att0 = Empty /\ defs = <<>> /\ seen0 = {} /\ work = <<>> /\ data = <<>>
    /\ seen = {} /\ validations = <<>> /\ steps = 0 /\ log = <<>>
    /\ rpc = NoRPC

Init ==
    /\ root \in {Design(sv, SomeTypes, {"A"}) : sv \in [ServiceNames -> SomeServices \cup {Nil}]}
    /\ d = <<>>
    /\ ret = NoCall
    /\ calls = 0
    /\ NoCollectState

\* The design of a service is replaced by another one between two calls.
ChangeDesign(name, sv) ==
    /\ calls < MaxCalls
    /\ ret.kind # "panic"
    /\ root.services[name] # Nil
    /\ root.services[name] # sv
    /\ root' = [root EXCEPT !.services[name] = sv]
    /\ calls' = calls + 1
    /\ UNCHANGED <<d, ret, att0, defs, seen0, work, data, seen, validations, steps, log, rpc>>

Next ==
    \/ \E name \in ServiceNames : Get(name)
    \/ \E name \in ServiceNames, sv \in SomeServices : ChangeDesign(name, sv)

Spec == Init /\ [][Next]_vars

\* The map is made anew: GRPCServices = make(ServicesData).
ResetCache ==
    /\ calls < MaxCalls
    /\ ret.kind # "panic"
    /\ d # <<>>
    /\ d' = <<>>
    /\ calls' = calls + 1
    /\ UNCHANGED <<root, ret, att0, defs, seen0, work, data, seen, validations, steps, log, rpc>>

\* Unary endpoints with the payload A, with and without metadata and
\* headers, and the services of one of them.
MetadataEndpoints(en) ==
    {e \in BaseEndpoints(en) :
        /\ e.Stream = "NoStream"
        /\ e.Payload = UserType("A") /\ e.Request = e.Payload
        /\ e.Result \in {Primitive, UserType("B")} /\ e.ResponseMessage = e.Result
        /\ e.Trailers = <<>>
        /\ ~e.Mismatch}
MetadataServices == {Service(<<e>>) : e \in MetadataEndpoints("M1")}

\* Two services of one design, compiled in any order, with the map made
\* anew between any two calls.
InitServices ==
    /\ root \in {Design([s1 |-> a, s2 |-> b], t, {"A"}) :
                    a \in MetadataServices, b \in MetadataServices, t \in DesignTypes}
    /\ d = <<>>
    /\ ret = NoCall
    /\ calls = 0
    /\ NoCollectState

NextServices ==
    \/ \E name \in ServiceNames : Get(name)
    \/ ResetCache

SpecServices == InitServices /\ [][NextServices]_vars

InitAnalyze ==
    /\ root \in {Design([s1 |-> sv, s2 |-> Nil], t, {"A", "M1Request"}) :
                    sv \in Services, t \in DesignTypes}
               \cup {Design([s1 |-> sv, s2 |-> Nil], ViewTypes, {"A", "M1Request"}) :
                        sv \in ViewedServices}
               \cup {Design([s1 |-> sv, s2 |-> Nil], MessageNamedTypes, {"A", "M1Request"}) :
                        sv \in SomeServices}
    /\ d = <<>>
    /\ ret = NoCall
    /\ calls = 0
    /\ NoCollectState

\* The first call of Get of a run, which runs analyze.
NextAnalyze == \E name \in {"s1"} : calls = 0 /\ Get(name)

SpecAnalyze == InitAnalyze /\ [][NextAnalyze]_vars

(***************************************************************************)
(* Properties of Get.                                                      *)
(***************************************************************************)
\* A step that is a call of Get (a change of the design changes root).
GetStep == calls' = calls + 1 /\ root' = root

\* C1: Get is memoized.  A call for a name in the map returns the stored
\* ServiceData, does not run analyze and leaves the map as it is, whatever
\* the design says now; the first call for a service of the design runs
\* analyze and stores what it returns; no step changes or drops an entry.
GetMemoized ==
    [][/\ \A n \in DOMAIN d : n \in DOMAIN d' /\ d'[n] = d[n]
       /\ GetStep =>
            LET n == ret'.name
            IN  /\ n \in DOMAIN d =>
                      ret'.data = d[n] /\ ~ret'.analyzed /\ d' = d
                /\ (n \notin DOMAIN d /\ root.services[n] # Nil) =>
                      /\ ret'.analyzed
                      /\ n \in DOMAIN d'
                      /\ ret'.data = d'[n]
                      /\ DOMAIN d' = DOMAIN d \cup {n}]_vars

\* Get returned the stored ServiceData of a service whose design has changed
\* since: analyze would now build another one.
GetReturnedStale ==
    /\ ret.kind = "return"
    /\ ~ret.analyzed
    /\ ret.name \in DOMAIN d
    /\ ret.data = d[ret.name]
    /\ root.services[ret.name] # Nil
    /\ analyze(root, ret.name).sd # d[ret.name]

\* C2: Get for a name with no service in the design returns nil without
\* running analyze and leaves the map, its keys included, as it is.
GetMissingService ==
    [][(GetStep /\ root.services[ret'.name] = Nil) =>
            /\ ret'.kind = "return"
            /\ ret'.data = Nil
            /\ ~ret'.analyzed
            /\ d' = d
            /\ ret'.name \notin DOMAIN d']_vars

\* Get returned nil for a missing service while the map holds another one.
GetReturnedMissing ==
    /\ ret.kind = "return"
    /\ root.services[ret.name] = Nil
    /\ ret.data = Nil
    /\ ret.name \notin DOMAIN d
    /\ DOMAIN d # {}

(***************************************************************************)
(* Properties of analyze, over the services analyze has run on: the        *)
(* EndpointData ed built for the endpoint e of the design.                 *)
(***************************************************************************)
Built == {n \in DOMAIN d : d[n] # Nil}
EndpointsOf(n) == root.services[n].GRPCEndpoints
IsEmptyType(dt) == dt = Empty \/ (dt.kind = "object" /\ dt.fields = <<>>)

\* C4: no two entries of sd.Messages have the same type name.
MessagesDistinct ==
    \A n \in Built :
        \A i, j \in DOMAIN d[n].Messages :
            d[n].Messages[i].Name = d[n].Messages[j].Name => i = j

\* Two endpoints whose requests both carry the user type A: A is listed once.
SharedTypeCollectedOnce ==
    /\ "s1" \in Built
    /\ Len(d["s1"].Endpoints) = 2
    /\ \A i \in 1..2 : EndpointsOf("s1")[i].Request = UserType("A")
    /\ root.types["A"] = Array(UserType("A"))
    /\ Occurrences(d["s1"].Messages, "A") = 1
    /\ Len(d["s1"].Messages) = 5

\* C6: an endpoint with an empty payload has no server request conversion.
EmptyPayloadNoServerConvert ==
    \A n \in Built :
        \A i \in DOMAIN d[n].Endpoints :
            IsEmptyType(EndpointsOf(n)[i].Payload) =>
                d[n].Endpoints[i].Request.ServerConvert = Nil

\* An endpoint with an object payload without fields and with metadata.
EmptyObjectPayloadBuilt ==
    /\ "s1" \in Built
    /\ EndpointsOf("s1")[1].Payload = Object(<<>>)
    /\ ~EndpointsOf("s1")[1].Mismatch
    /\ Len(d["s1"].Endpoints[1].Request.Metadata) = 2
    /\ d["s1"].Endpoints[1].Request.ServerConvert = Nil
    /\ d["s1"].Endpoints[1].Request.ClientConvert # Nil

\* C7: an endpoint with an empty result has no response conversion, on the
\* server or on the client.
EmptyResultNoResponseConvert ==
    \A n \in Built :
        \A i \in DOMAIN d[n].Endpoints :
            IsEmptyType(EndpointsOf(n)[i].Result) =>
                /\ d[n].Endpoints[i].Response.ServerConvert = Nil
                /\ d[n].Endpoints[i].Response.ClientConvert = Nil

\* A unary endpoint with an object result without fields, and a payload.
EmptyObjectResultBuilt ==
    /\ "s1" \in Built
    /\ EndpointsOf("s1")[1].Result = Object(<<>>)
    /\ EndpointsOf("s1")[1].Stream = "NoStream"
    /\ ~EndpointsOf("s1")[1].Mismatch
    /\ d["s1"].Endpoints[1].Request.ServerConvert # Nil
    /\ d["s1"].Endpoints[1].Response.ServerConvert = Nil
    /\ d["s1"].Endpoints[1].Response.ClientConvert = Nil

\* C8: an endpoint with a streaming payload has no client request conversion.
StreamingPayloadNoClientConvert ==
    \A n \in Built :
        \A i \in DOMAIN d[n].Endpoints :
            (IsPayloadStreaming(EndpointsOf(n)[i])
                \/ EndpointsOf(n)[i].StreamingPayload # Empty) =>
                d[n].Endpoints[i].Request.ClientConvert = Nil

\* A client streaming endpoint with a payload and a streaming payload: the
\* server converts the request, the client does not.
StreamingPayloadBuilt ==
    /\ "s1" \in Built
    /\ EndpointsOf("s1")[1].Stream = "ClientStream"
    /\ EndpointsOf("s1")[1].StreamingPayload = UserType("A")
    /\ EndpointsOf("s1")[1].Payload = Primitive
    /\ d["s1"].Endpoints[1].Request.ServerConvert # Nil
    /\ d["s1"].Endpoints[1].Request.ClientConvert = Nil

\* The argument buildConvertData makes for the request message.
IsBodyArg(arg) == arg.Name = Ident("message") /\ arg.FieldName = NoIdent

\* C9: with a streaming payload and a payload that are not empty, the
\* arguments of the server request constructor are the request metadata, one
\* argument each and in their order, and the message argument is not among
\* them.
StreamingPayloadArgsAreMetadata ==
    \A n \in Built :
        \A i \in DOMAIN d[n].Endpoints :
            LET e == EndpointsOf(n)[i]
                request == d[n].Endpoints[i].Request
            IN  (/\ e.StreamingPayload # Empty
                 /\ ~IsEmptyType(e.Payload)
                 /\ request.ServerConvert # Nil) =>
                    LET args == request.ServerConvert.Init.Args
                    IN  /\ Len(args) = Len(request.Metadata)
                        /\ \A k \in DOMAIN args :
                              /\ args[k].Name = request.Metadata[k].VarName
                              /\ args[k].TypeName = request.Metadata[k].TypeName
                              /\ ~IsBodyArg(args[k])

\* A bidirectional endpoint with two metadata fields: two arguments.
StreamingPayloadArgsBuilt ==
    /\ "s1" \in Built
    /\ EndpointsOf("s1")[1].Stream = "Bidirectional"
    /\ EndpointsOf("s1")[1].StreamingPayload = UserType("A")
    /\ EndpointsOf("s1")[1].Payload = UserType("A")
    /\ d["s1"].Endpoints[1].Request.ServerConvert # Nil
    /\ Len(d["s1"].Endpoints[1].Request.Metadata) = 2
    /\ Len(d["s1"].Endpoints[1].Request.ServerConvert.Init.Args) = 2

\* The MetadataData of an endpoint: request metadata, headers and trailers.
AllMetadata(ed) ==
    Range(ed.Request.Metadata) \cup Range(ed.Response.Headers)
        \cup Range(ed.Response.Trailers)

\* C10: a MetadataData with Pointer set is not required and has a primitive
\* type.
PointerOptionalPrimitive ==
    \A n \in Built :
        \A i \in DOMAIN d[n].Endpoints :
            \A m \in AllMetadata(d[n].Endpoints[i]) :
                m.Pointer => ~m.Required /\ m.Type.kind = "primitive"

\* An endpoint with an optional primitive (a pointer), an optional array and
\* a required array (no pointers) among its metadata, headers and trailers.
PointerMetadataBuilt ==
    /\ "s1" \in Built
    /\ LET ed == d["s1"].Endpoints[1]
       IN  /\ Len(ed.Request.Metadata) = 2
           /\ ed.Request.Metadata[1].Pointer
           /\ ~ed.Request.Metadata[2].Pointer /\ ~ed.Request.Metadata[2].Required
           /\ Len(ed.Response.Headers) = 1 /\ ed.Response.Headers[1].Pointer
           /\ Len(ed.Response.Trailers) = 1 /\ ~ed.Response.Trailers[1].Pointer

(***************************************************************************)
(* One traversal of collectMessages, call by call.  work holds the         *)
(* attributes of the calls not yet entered, in the order the recursion     *)
(* enters them.                                                            *)
(***************************************************************************)
CollectValidated == {"A"}

InitCollect ==
    /\ root = <<>> /\ d = <<>> /\ ret = <<>> /\ calls = 0
    /\ att0 \in TypeExprs \cup {Empty}
    /\ defs \in TypeEnvs
    /\ seen0 \in {{}, {"A"}}
    /\ work = <<att0>>
    /\ data = <<>>
    /\ seen = seen0
    /\ validations = <<>>
    /\ steps = 0
    /\ log = <<>>
    /\ rpc = NoRPC

CollectCall ==
    /\ work # <<>>
    /\ steps < MaxSteps
    /\ LET v == visit(Head(work), defs, CollectValidated, seen)
       IN  /\ data' = data \o v.data
           /\ validations' = validations \o v.validations
           /\ seen' = seen \cup v.seen
           /\ work' = v.next \o Tail(work)
    /\ steps' = steps + 1
    /\ UNCHANGED <<root, d, ret, calls, att0, defs, seen0, log, rpc>>

NextCollect == CollectCall

SpecCollect == InitCollect /\ [][NextCollect]_vars /\ WF_vars(CollectCall)

Returned == work = <<>>

\* The user types an attribute names without passing through a user type,
\* in the order of the declaration (a map: its key, then its element).
RECURSIVE OrderedRefs(_)
RECURSIVE OrderedRefsOf(_)
OrderedRefs(t) ==
    IF t.kind = "user" THEN <<t.name>> ELSE OrderedRefsOf(t.fields)
OrderedRefsOf(ts) ==
    IF ts = <<>> THEN <<>> ELSE OrderedRefs(Head(ts)) \o OrderedRefsOf(Tail(ts))

DirectRefs(t) == Range(OrderedRefs(t))

\* The user types reachable from an attribute through any number of
\* definitions.
RECURSIVE ReachFrom(_, _)
ReachFrom(names, types) ==
    LET more == names \cup UNION {DirectRefs(types[n]) : n \in names}
    IN  IF more = names THEN names ELSE ReachFrom(more, types)
Reachable(t, types) == ReachFrom(DirectRefs(t), types)

Unseen(refs, s) == SelectSeq(refs, LAMBDA n : n \notin s)

\* C3: for every attribute and every definition of the user types, cyclic
\* ones included, the traversal started by collectMessages returns, and when
\* it started with an empty seen map every user type reachable from the
\* attribute is in the returned list exactly once.
CollectTerminatesExactlyOnce ==
    <>[](/\ Returned
         /\ seen0 = {} =>
                \A n \in Reachable(att0, defs) : Occurrences(data, n) = 1)

\* A traversal over two mutually referential user types, entered through a
\* map, has returned both.
CollectCycleReturned ==
    /\ Returned
    /\ seen0 = {}
    /\ att0.kind = "map"
    /\ "B" \in DirectRefs(defs["A"])
    /\ "A" \in DirectRefs(defs["B"])
    /\ "A" \in DirectRefs(defs["A"])
    /\ Len(data) = 2

\* C5: in the returned list a user type is directly followed by the first
\* user type of its own definition that was not seen before (parent before
\* children, fields in declaration order, an array through its element, a
\* map through its key and then its element), the list starts with the
\* first such type of the attribute itself, and an attribute that names no
\* unseen user type (a primitive, the empty type) returns nothing.
CollectOrder ==
    Returned =>
        /\ LET kids == Unseen(OrderedRefs(att0), seen0)
           IN  IF kids = <<>> THEN data = <<>> ELSE data[1].Name = kids[1]
        /\ \A i \in DOMAIN data :
              LET before == seen0 \cup {data[j].Name : j \in 1..i}
                  kids == Unseen(OrderedRefs(defs[data[i].Name]), before)
              IN  kids # <<>> => i < Len(data) /\ data[i + 1].Name = kids[1]

\* A map from one user type to another was collected: key first.
CollectMapKeyThenElem ==
    /\ Returned
    /\ seen0 = {}
    /\ att0 = Map(UserType("B"), UserType("A"))
    /\ defs["B"] = Array(UserType("B"))
    /\ data = <<UserTypeData(UserType("B")), UserTypeData(UserType("A"))>>

(***************************************************************************)
(* Properties of the conversions, errors and streams of an endpoint.       *)
(***************************************************************************)
Unary(e, types) ==
    ~IsStreaming(e) /\ needInit(e.Payload, types) /\ needInit(e.Result, types)

\* The two conversions of a pair exist together and each one's source is the
\* other one's target.
Transposed(svr, cli) ==
    /\ svr = Nil <=> cli = Nil
    /\ svr # Nil => svr.SrcName = cli.TgtName /\ svr.TgtName = cli.SrcName

\* C11: for a non-streaming endpoint with a payload and a result that are
\* not empty, the server and client request conversions have transposed
\* SrcName and TgtName, and so have the server and client response
\* conversions, also when the result has views.
ConvertPairsTransposed ==
    \A n \in Built :
        \A i \in DOMAIN d[n].Endpoints :
            Unary(EndpointsOf(n)[i], root.types) =>
                /\ Transposed(d[n].Endpoints[i].Request.ServerConvert,
                              d[n].Endpoints[i].Request.ClientConvert)
                /\ Transposed(d[n].Endpoints[i].Response.ServerConvert,
                              d[n].Endpoints[i].Response.ClientConvert)

\* A unary endpoint with the payload A and the viewed result B: the response
\* pair converts between the projected type and the response message.
ViewedConvertPairsBuilt ==
    /\ "s1" \in Built
    /\ Unary(EndpointsOf("s1")[1], root.types)
    /\ EndpointsOf("s1")[1].ViewedResult
    /\ EndpointsOf("s1")[1].Payload = UserType("A")
    /\ d["s1"].Endpoints[1].Request.ServerConvert # Nil
    /\ d["s1"].Endpoints[1].Request.ServerConvert.SrcName = [pkg |-> "pb", name |-> "M1Request"]
    /\ d["s1"].Endpoints[1].Request.ClientConvert.SrcName = [pkg |-> "svc", name |-> "A"]
    /\ d["s1"].Endpoints[1].Response.ServerConvert # Nil
    /\ d["s1"].Endpoints[1].Response.ServerConvert.SrcName = [pkg |-> "svcviews", name |-> "BView"]
    /\ d["s1"].Endpoints[1].Response.ClientConvert.SrcName = [pkg |-> "pb", name |-> "M1Response"]

\* C12: a non-streaming endpoint with a payload and a result that are not
\* empty and with no declared error has one request message and one
\* response message, its four conversions (request and response, server and
\* client) are not nil, it has no server stream and no client stream, and
\* its list of errors is empty.
UnaryEndpointComplete ==
    \A n \in Built :
        \A i \in DOMAIN d[n].Endpoints :
            LET e == EndpointsOf(n)[i]
                ed == d[n].Endpoints[i]
            IN  (Unary(e, root.types) /\ e.GRPCErrors = <<>>) =>
                    /\ ed.Request.Message = [Name |-> MessageName(e.Name, "Request")]
                    /\ ed.Response.Message = [Name |-> MessageName(e.Name, "Response")]
                    /\ Occurrences(d[n].Messages, MessageName(e.Name, "Request")) = 1
                    /\ Occurrences(d[n].Messages, MessageName(e.Name, "Response")) = 1
                    /\ ed.Request.ServerConvert # Nil
                    /\ ed.Request.ClientConvert # Nil
                    /\ ed.Response.ServerConvert # Nil
                    /\ ed.Response.ClientConvert # Nil
                    /\ ed.ServerStream = Nil
                    /\ ed.ClientStream = Nil
                    /\ ed.Errors = <<>>

EmptyPayloadUnary(e, types) ==
    ~IsStreaming(e) /\ IsEmptyType(e.Payload) /\ needInit(e.Result, types)

BidirectionalBoth(e, types) ==
    /\ e.Stream = "Bidirectional"
    /\ e.StreamingPayload # Empty
    /\ needInit(e.Result, types)

Sides(sm) == {c \in {sm.SendConvert, sm.RecvConvert} : c # Nil}

ErrorsInDeclarationOrder ==
    \A n \in Built :
        \A i \in DOMAIN d[n].Endpoints :
            LET declared == EndpointsOf(n)[i].GRPCErrors
                errors == d[n].Endpoints[i].Errors
            IN  /\ Len(errors) = Len(declared)
                /\ \A k \in DOMAIN declared : errors[k].Name = declared[k].Name
                /\ declared = <<>> => errors = <<>>

\* An endpoint that declares timeout, internal and bad_request has these
\* three errors, in this order.
ThreeErrorsBuilt ==
    /\ "s1" \in Built
    /\ Len(EndpointsOf("s1")[1].GRPCErrors) = 3
    /\ [k \in 1..3 |-> d["s1"].Endpoints[1].Errors[k].Name]
           = <<"timeout", "internal", "bad_request">>

Rank(step) ==
    CASE step \in {"request message", "response message"} -> 1
      [] step \in {"request metadata", "response metadata"} -> 2
      [] step \in {"request conversions", "response conversions"} -> 3
      [] step = "errors" -> 4
      [] step = "streams" -> 5

StepsOf(trace, en) == {i \in DOMAIN trace : trace[i].endpoint = en}

\* C17: analyze takes the steps of each endpoint in this order: the wire
\* messages are collected and attached to the service data, then the
\* metadata are built, then the request and response conversions, then the
\* errors, then the streams; no conversion of an endpoint is built before
\* the messages of the endpoint are attached and no error before its
\* conversions.
AnalyzeStepsInOrder ==
    \A en \in EndpointNames :
        \A i, j \in StepsOf(ret.trace, en) :
            i < j => Rank(ret.trace[i].step) <= Rank(ret.trace[j].step)

(***************************************************************************)
(* Shapes protoBufTransform rejects.                                       *)
(***************************************************************************)
\* analyze calls buildConvertData for the endpoint at least once.
Converts(e, types) ==
    \/ needInit(e.Payload, types)
    \/ ~IsPayloadStreaming(e)
    \/ ~IsStreaming(e) /\ needInit(e.Result, types)
    \/ IsStreaming(e) /\ (e.Result # Empty \/ e.StreamingPayload # Empty)

Rejected(n) ==
    /\ root.services[n] # Nil
    /\ \E i \in DOMAIN EndpointsOf(n) :
          EndpointsOf(n)[i].Mismatch /\ Converts(EndpointsOf(n)[i], root.types)

\* C18: when protoBufTransform returns an error for a conversion of a
\* service, the compilation of the service fails: Get returns no
\* ServiceData for it and stores none in the map, so no ServiceData with a
\* conversion left nil by the error exists.
MismatchFailsCompilation ==
    \A n \in ServiceNames :
        Rejected(n) =>
            /\ n \notin Built
            /\ ~(ret.name = n /\ ret.kind = "return" /\ ret.data # Nil)

UserTypesOf(e, types) == Reachable(Object(<<e.Request, e.ResponseMessage>>), types)

\* C20: the seen map and the scope of a compilation are its own: the
\* messages of a service are the same whatever was compiled before it, and
\* every user type a service reaches is in its messages, also when a
\* service compiled before reaches the same type.
CompilationsIndependent ==
    \A i \in DOMAIN log :
        LET sv == root.services[log[i].name]
        IN  /\ \A j \in DOMAIN log :
                  root.services[log[j].name] = sv =>
                      log[j].data.Messages = log[i].data.Messages
            /\ \A k \in DOMAIN sv.GRPCEndpoints :
                  UserTypesOf(sv.GRPCEndpoints[k], root.types)
                      \subseteq Names(log[i].data.Messages)

\* The service s2 compiled first and again after another service s1: both
\* reach the user type A, and A is in the messages of each compilation.
SharedTypeInEachService ==
    /\ Len(log) = 3
    /\ log[1].name = "s2" /\ log[2].name = "s1" /\ log[3].name = "s2"
    /\ root.services["s1"] # root.services["s2"]
    /\ \A i \in 1..3 :
          /\ "A" \in UserTypesOf(root.services[log[i].name].GRPCEndpoints[1], root.types)
          /\ Occurrences(log[i].data.Messages, "A") = 1

(***************************************************************************)
(* The stream data of a streaming endpoint.                                *)
(***************************************************************************)
\* C21: for a streaming endpoint the server stream has a send conversion
\* exactly when the method result is not empty and a receive conversion
\* exactly when the streaming payload is not empty, the client stream has a
\* send conversion exactly when the streaming payload is not empty and a
\* receive conversion exactly when the result is not empty; a send
\* conversion targets the wire message and a receive conversion the service
\* type.
StreamAdaptersByDirection ==
    \A n \in Built :
        \A i \in DOMAIN d[n].Endpoints :
            LET e == EndpointsOf(n)[i]
                ss == d[n].Endpoints[i].ServerStream
                cs == d[n].Endpoints[i].ClientStream
                request == [pkg |-> pbPkgName, name |-> MessageName(e.Name, "StreamingRequest")]
                response == [pkg |-> pbPkgName, name |-> MessageName(e.Name, "Response")]
                spayload == AnalyzerName(Analyzer(e.StreamingPayload, svcPkgName, TRUE), TRUE)
                result == AnalyzerName(resultAnalyzer(e), TRUE)
            IN  IsStreaming(e) =>
                    /\ ss # Nil /\ cs # Nil
                    /\ ss.SendConvert # Nil <=> e.Result # Empty
                    /\ ss.RecvConvert # Nil <=> e.StreamingPayload # Empty
                    /\ cs.SendConvert # Nil <=> e.StreamingPayload # Empty
                    /\ cs.RecvConvert # Nil <=> e.Result # Empty
                    /\ ss.SendConvert # Nil => ss.SendConvert.TgtName = response
                    /\ ss.RecvConvert # Nil => ss.RecvConvert.TgtName = spayload
                    /\ cs.SendConvert # Nil => cs.SendConvert.TgtName = request
                    /\ cs.RecvConvert # Nil => cs.RecvConvert.TgtName = result

(***************************************************************************)
(* Properties of the generated server methods, over the call under way.    *)
(***************************************************************************)
MethodReturned == rpc.pc = "returned"
LastEvent == rpc.events[Len(rpc.events)]

\* C22: a method of an endpoint with declared errors returns an error of
\* its Decode or Handle step that is a gRPC status as it is; otherwise an
\* error whose ErrorName is timeout, internal or bad_request is returned as
\* a gRPC status of the code Canceled, Unknown or InvalidArgument; the
\* method returns a response only when no step returned an error.
DeclaredErrorsMapped ==
    (MethodReturned /\ rpc.method.errors # <<>>) =>
        LET err == LastEvent.err
        IN  /\ (err # Nil /\ err.code # "") => rpc.err = err
            /\ (err # Nil /\ err.code = "") =>
                  /\ rpc.err # Nil /\ rpc.err.code # ""
                  /\ err.name = "timeout" => rpc.err.code = "codes.Canceled"
                  /\ err.name = "internal" => rpc.err.code = "codes.Unknown"
                  /\ err.name = "bad_request" => rpc.err.code = "codes.InvalidArgument"
            /\ rpc.resp # Nil =>
                  /\ rpc.err = Nil
                  /\ \A i \in DOMAIN rpc.events : rpc.events[i].err = Nil

\* The Handle step of the bidirectional method with errors returned a plain
\* error named timeout after Decode succeeded: the method returned a status
\* of code Canceled with the message of the error.
TimeoutReturnedCanceled ==
    /\ MethodReturned
    /\ rpc.method.name = "MethodBidirectionalStreamingRPCWithErrors"
    /\ Len(rpc.events) = 2
    /\ LastEvent = Event("Handle", Error("", "timeout", "too late"))
    /\ rpc.err = Error("codes.Canceled", "", "too late")
    /\ rpc.resp = Nil

\* C23: in a streaming method the Decode step comes before the Handle step
\* and Handle is called only after Decode returned no error; when Decode
\* returns an error the method returns an error and Handle is not called;
\* the method returns nil only after Handle returned no error.
DecodeBeforeHandle ==
    (rpc.method # Nil /\ rpc.method.streaming) =>
        /\ \A j \in DOMAIN rpc.events :
              rpc.events[j].step = "Handle" =>
                  /\ j = 2
                  /\ rpc.events[1] = Event("Decode", Nil)
        /\ \A j \in DOMAIN rpc.events :
              (rpc.events[j].step = "Decode" /\ rpc.events[j].err # Nil) =>
                  /\ MethodReturned
                  /\ rpc.err # Nil
                  /\ \A k \in DOMAIN rpc.events : rpc.events[k].step # "Handle"
        /\ (MethodReturned /\ rpc.err = Nil) =>
              /\ rpc.events # <<>>
              /\ LastEvent = Event("Handle", Nil)

\* The Decode step of a streaming method returned an error: the method has
\* returned an error after this one step.
DecodeFailedNoHandle ==
    /\ MethodReturned
    /\ rpc.method.name = "MethodServerStreamingRPC"
    /\ rpc.events = <<Event("Decode", Error("", "", "boom"))>>
    /\ rpc.err = Error("codes.Unknown", "", "boom")

(***************************************************************************)
(* The validation of a conversion.                                         *)
(***************************************************************************)
\* The conversions of an endpoint data whose target is a wire message.
ToWire(ed) ==
    {c \in {ed.Request.ClientConvert, ed.Response.ServerConvert} : c # Nil}
    \cup (IF ed.ServerStream # Nil /\ ed.ServerStream.SendConvert # Nil
          THEN {ed.ServerStream.SendConvert} ELSE {})
    \cup (IF ed.ClientStream # Nil /\ ed.ClientStream.SendConvert # Nil
          THEN {ed.ClientStream.SendConvert} ELSE {})

\* C24: for an endpoint whose request message has a validation and whose
\* payload is not empty, the server request conversion is not nil and its
\* Validation is the ValidationData of the request message of the endpoint,
\* found in sd.Validations when the conversion is built; a conversion whose
\* target is a wire message has no Validation.
RequestValidationFound ==
    \A n \in Built :
        \A i \in DOMAIN d[n].Endpoints :
            LET e == EndpointsOf(n)[i]
                ed == d[n].Endpoints[i]
                request == MessageName(e.Name, "Request")
            IN  /\ (request \in root.validated /\ needInit(e.Payload, root.types)) =>
                      /\ ed.Request.ServerConvert # Nil
                      /\ ed.Request.ServerConvert.Validation
                             = ValidationData(UserType(request))
                /\ \A c \in ToWire(ed) : c.Validation = Nil

(***************************************************************************)
(* The arguments of the constructors.                                      *)
(***************************************************************************)
\* args is the source argument of the conversion c, named var, followed by
\* one argument for every entry of the metadata md, in the order of md.
SourceThenMetadata(c, var, md) ==
    LET args == c.Init.Args
    IN  /\ Len(args) = 1 + Len(md)
        /\ args[1].Name = Ident(var) /\ args[1].Ref = Ident(var)
        /\ args[1].TypeName = c.SrcName
        /\ args[1].FieldName = NoIdent
        /\ \A k \in DOMAIN md :
              /\ args[k + 1].Name = md[k].VarName
              /\ args[k + 1].FieldName = md[k].FieldName
              /\ args[k + 1].TypeName = md[k].TypeName

\* C25: a constructor built by buildConvertData and left as it is (the
\* send and receive conversions of the streams) has one argument, the
\* source value.  For an endpoint with no streaming payload the arguments
\* of the server request constructor are the message followed by one
\* argument per request metadata, in their order, those of the client
\* response constructor are the message followed by the headers and then
\* the trailers, and the client request and server response constructors
\* have the source argument only.
ConstructorArgs ==
    \A n \in Built :
        \A i \in DOMAIN d[n].Endpoints :
            LET e == EndpointsOf(n)[i]
                ed == d[n].Endpoints[i]
                resVar == IF e.ViewedResult THEN "vresult" ELSE "result"
            IN  /\ ed.ServerStream # Nil =>
                      /\ ed.ServerStream.SendConvert # Nil =>
                            SourceThenMetadata(ed.ServerStream.SendConvert, resVar, <<>>)
                      /\ ed.ServerStream.RecvConvert # Nil =>
                            SourceThenMetadata(ed.ServerStream.RecvConvert, "v", <<>>)
                /\ ed.ClientStream # Nil =>
                      /\ ed.ClientStream.SendConvert # Nil =>
                            SourceThenMetadata(ed.ClientStream.SendConvert, "spayload", <<>>)
                      /\ ed.ClientStream.RecvConvert # Nil =>
                            SourceThenMetadata(ed.ClientStream.RecvConvert, "v", <<>>)
                /\ e.StreamingPayload = Empty =>
                      /\ ed.Request.ServerConvert # Nil =>
                            SourceThenMetadata(ed.Request.ServerConvert, "message",
                                               ed.Request.Metadata)
                      /\ ed.Response.ClientConvert # Nil =>
                            SourceThenMetadata(ed.Response.ClientConvert, "message",
                                               ed.Response.Headers \o ed.Response.Trailers)
                      /\ ed.Request.ClientConvert # Nil =>
                            SourceThenMetadata(ed.Request.ClientConvert, "payload", <<>>)
                      /\ ed.Response.ServerConvert # Nil =>
                            SourceThenMetadata(ed.Response.ServerConvert, "result", <<>>)

\* A unary endpoint with two request metadata, a header and a trailer: the
\* server request constructor has three arguments, the client response
\* constructor has the message, the header key and the trailer tags, and
\* the other two constructors have one argument.
ConstructorArgsBuilt ==
    /\ "s1" \in Built
    /\ EndpointsOf("s1")[1].Stream = "NoStream"
    /\ Len(d["s1"].Endpoints[1].Request.Metadata) = 2
    /\ Len(d["s1"].Endpoints[1].Response.Headers) = 1
    /\ Len(d["s1"].Endpoints[1].Response.Trailers) = 1
    /\ d["s1"].Endpoints[1].Request.ServerConvert # Nil
    /\ Len(d["s1"].Endpoints[1].Request.ServerConvert.Init.Args) = 3
    /\ d["s1"].Endpoints[1].Response.ClientConvert # Nil
    /\ [k \in 1..3 |-> d["s1"].Endpoints[1].Response.ClientConvert.Init.Args[k].Name.id]
           = <<"message", "key", "tags">>
    /\ d["s1"].Endpoints[1].Request.ClientConvert # Nil
    /\ Len(d["s1"].Endpoints[1].Request.ClientConvert.Init.Args) = 1
    /\ d["s1"].Endpoints[1].Response.ServerConvert # Nil
    /\ Len(d["s1"].Endpoints[1].Response.ServerConvert.Init.Args) = 1

(***************************************************************************)
(* The variable names of the metadata.                                     *)
(***************************************************************************)
\* C26: within one endpoint the variable names of the request metadata, the
\* response headers and the response trailers are pairwise distinct, also
\* when an attribute name is bound in more than one of the three lists.
MetadataVarNamesDistinct ==
    \A n \in Built :
        \A i \in DOMAIN d[n].Endpoints :
            LET ed == d[n].Endpoints[i]
                all == ed.Request.Metadata \o ed.Response.Headers \o ed.Response.Trailers
            IN  \A j, k \in DOMAIN all :
                    all[j].VarName = all[k].VarName => j = k

\* An endpoint that binds key and tags as request metadata, key as a header
\* and tags as a trailer: four variable names, the header and the trailer
\* with a number.
MetadataVarNamesBuilt ==
    /\ "s1" \in Built
    /\ LET ed == d["s1"].Endpoints[1]
       IN  /\ Len(ed.Request.Metadata) = 2
           /\ Len(ed.Response.Headers) = 1
           /\ Len(ed.Response.Trailers) = 1
           /\ [k \in 1..2 |-> ed.Request.Metadata[k].AttributeName] = <<"key", "tags">>
           /\ ed.Response.Headers[1].AttributeName = "key"
           /\ ed.Response.Trailers[1].AttributeName = "tags"
           /\ ed.Request.Metadata[1].VarName = Goify("key", FALSE)
           /\ ed.Response.Headers[1].VarName # Goify("key", FALSE)
           /\ ed.Response.Headers[1].VarName.id = "key"
           /\ ed.Response.Trailers[1].VarName # Goify("tags", FALSE)
           /\ ed.Response.Trailers[1].VarName.id = "tags"

(***************************************************************************)
(* The security schemes of an endpoint.                                    *)
(***************************************************************************)
SchemeNames(s) == {s[k].SchemeName : k \in DOMAIN s}

\* C27: every scheme of the requirements of an endpoint is in
\* MessageSchemes when its In is "message" and in MetadataSchemes
\* otherwise, with that In, and not in the other list; the two lists hold
\* nothing else.
SchemesSplitByCarrier ==
    \A n \in Built :
        \A i \in DOMAIN d[n].Endpoints :
            LET required == RequiredSchemes(EndpointsOf(n)[i].Requirements)
                msg == d[n].Endpoints[i].MessageSchemes
                met == d[n].Endpoints[i].MetadataSchemes
            IN  /\ \A k \in DOMAIN required :
                      IF required[k].In = "message"
                      THEN /\ \E j \in DOMAIN msg : msg[j] = required[k]
                           /\ required[k].SchemeName \notin SchemeNames(met)
                      ELSE /\ \E j \in DOMAIN met : met[j] = required[k]
                           /\ required[k].SchemeName \notin SchemeNames(msg)
                /\ \A j \in DOMAIN msg : \E k \in DOMAIN required : required[k] = msg[j]
                /\ \A j \in DOMAIN met : \E k \in DOMAIN required : required[k] = met[j]

\* An endpoint with two requirements that name jwt (in the message) twice,
\* api_key (in the metadata) and basic (no carrier given): jwt is the one
\* message scheme, api_key and basic are the metadata schemes.
SchemesSplitBuilt ==
    /\ "s1" \in Built
    /\ Len(EndpointsOf("s1")[1].Requirements) = 2
    /\ d["s1"].Endpoints[1].MessageSchemes = <<Scheme("jwt", "message")>>
    /\ d["s1"].Endpoints[1].MetadataSchemes
           = <<Scheme("api_key", "metadata"), Scheme("basic", "")>>

(***************************************************************************)
(* The top-level message of a collection.                                  *)
(***************************************************************************)
\* C28: every collection of the request or response message of an endpoint
\* returns a list that is not empty and starts with that message, its name
\* not being in seen before, so that msgs[0] never fails: no run of analyze
\* dies, and the Message of every request and response data is the data of
\* the top-level message collected for it.
TopLevelMessageFirst ==
    /\ ret.kind # "panic"
    /\ \A n \in Built :
          \A i \in DOMAIN d[n].Endpoints :
              LET e == EndpointsOf(n)[i]
                  ed == d[n].Endpoints[i]
              IN  /\ ed.Request.Message =
                        UserTypeData(UserType(MessageName(e.Name,
                            IF e.StreamingPayload # Empty THEN "StreamingRequest"
                            ELSE "Request")))
                  /\ ed.Response.Message =
                        UserTypeData(UserType(MessageName(e.Name, "Response")))

CollectSteps ==
    {i \in DOMAIN ret.trace : ret.trace[i].step \in {"request message", "response message"}}

\* C30: when a collection of messages is done, the names in seen are the
\* type names of sd.Messages, every ValidationData of sd.Validations is that
\* of a message of sd.Messages, and no message has two of them.
SeenIsMessages ==
    \A i \in CollectSteps :
        LET t == ret.trace[i]
        IN  /\ t.seen = t.names
            /\ \A j \in DOMAIN t.validations :
                  /\ t.validations[j].SrcName \in t.names
                  /\ \A k \in DOMAIN t.validations :
                        t.validations[k].SrcName = t.validations[j].SrcName => k = j

\* Two endpoints whose requests both carry the user type A, which has a
\* validation as the request message of the first endpoint has: after the
\* last collection seen holds the five names of the messages, and the
\* validations are those of M1Request and A.
SeenIsMessagesBuilt ==
    /\ ret.kind = "return" /\ ret.analyzed
    /\ Cardinality(CollectSteps) = 4
    /\ LET t == ret.trace[CHOOSE i \in CollectSteps : \A j \in CollectSteps : j <= i]
       IN  /\ t.seen = {"M1Request", "A", "M1Response", "M2Request", "M2Response"}
           /\ t.messages = 5
           /\ [j \in DOMAIN t.validations |-> t.validations[j].SrcName] = <<"M1Request", "A">>

====
